---- MODULE Spec2Model ----
(***************************************************************************)
(* Model of unchess_lib/src/enums.rs: the chess enumerations, the          *)
(* AmbiguousMove value and its conversion to and from PGN move text.       *)
(*                                                                         *)
(* A text is a sequence of one-character strings.  Option<T> is a sequence *)
(* of length at most one: None is <<>>, Some(x) is <<x>>.  Result<T, E> is *)
(* a record with the field ok and either val or err.                       *)
(***************************************************************************)
EXTENDS Integers, Sequences, FiniteSets, TLC

VARIABLES pc, mv, text, ret, arg

vars == <<pc, mv, text, ret, arg>>

----------------------------------------------------------------------------
(* Bounds of the model *)

\* destination squares are drawn from files and ranks 0..MaxDest
MaxDest == 1
\* a caller-constructed move has src_file and src_rank up to MaxIndex
MaxIndex == 8
\* arbitrary input texts have at most MaxLen characters
MaxLen == 4

(* Program constants *)

\* the last valid file and rank index, (0..=7)
LastIndex == 7

----------------------------------------------------------------------------
(* Option and Result *)

None == <<>>
Some(x) == <<x>>
IsSome(o) == o # <<>>
Unwrap(o) == o[1]
Option(S) == {None} \cup {Some(x) : x \in S}

Ok(v) == [ok |-> TRUE, val |-> v]
Err(e) == [ok |-> FALSE, err |-> e]

\* ChessError::InvalidPGN(String) and ChessError::NotAction(BoardState)
InvalidPGN(t) == [kind |-> "InvalidPGN", text |-> t]
NotAction(s) == [kind |-> "NotAction", state |-> s]

\* the parser's own error, which holds the input it failed on
ParseError(t) == [kind |-> "ParseError", text |-> t]

----------------------------------------------------------------------------
(* Enumerations *)

PieceKind == {"King", "Queen", "Bishop", "Knight", "Rook", "Pawn"}
BoardState == {"Normal", "Check", "Stalemate", "Checkmate"}
MoveAction == {"Check", "Checkmate"}
CastlingSide == {"KingSide", "QueenSide"}

\* impl From<PieceKind> for char
PieceKind_to_char(value) ==
    CASE value = "King" -> "K"
      [] value = "Queen" -> "Q"
      [] value = "Bishop" -> "B"
      [] value = "Knight" -> "N"
      [] value = "Rook" -> "R"
      [] value = "Pawn" -> "P"

\* PieceKind_try_from, but matching the letter in either case
PieceKind_try_from_any_case(value) ==
    CASE value \in {"K", "k"} -> Ok("King")
      [] value \in {"Q", "q"} -> Ok("Queen")
      [] value \in {"B"} -> Ok("Bishop")
      [] value \in {"N", "n"} -> Ok("Knight")
      [] value \in {"R", "r"} -> Ok("Rook")
      [] value \in {"P", "p"} -> Ok("Pawn")
      [] OTHER -> Err(InvalidPGN(<<value>>))

\* impl TryFrom<char> for PieceKind; the error carries value.to_string()
PieceKind_try_from(value) ==
    CASE value = "K" -> Ok("King")
      [] value = "Q" -> Ok("Queen")
      [] value = "B" -> Ok("Bishop")
      [] value = "N" -> Ok("Knight")
      [] value = "R" -> Ok("Rook")
      [] value = "P" -> Ok("Pawn")
      [] OTHER -> Err(InvalidPGN(<<value>>))

\* PieceKind::strategy
PieceKind_strategy == {"Pawn", "Rook", "Knight", "King", "Queen", "Bishop"}

\* PieceKind_promotable_stategy, but every kind except Pawn
PieceKind_promotable_with_king == {"Rook", "Knight", "Queen", "Bishop", "King"}

\* PieceKind::promotable_stategy
PieceKind_promotable_stategy == {"Rook", "Knight", "Queen", "Bishop"}

\* impl From<MoveAction> for BoardState
BoardState_from(value) ==
    CASE value = "Check" -> "Check"
      [] value = "Checkmate" -> "Checkmate"

\* impl From<MoveAction> for char
MoveAction_to_char(value) ==
    CASE value = "Check" -> "+"
      [] value = "Checkmate" -> "#"

\* MoveAction_try_from, but the wildcard arm only catches Normal
MoveAction_try_from_stalemate(value) ==
    CASE value = "Check" -> Ok("Check")
      [] value \in {"Checkmate", "Stalemate"} -> Ok("Checkmate")
      [] OTHER -> Err(NotAction(value))

\* impl TryFrom<BoardState> for MoveAction
MoveAction_try_from(value) ==
    CASE value = "Check" -> Ok("Check")
      [] value = "Checkmate" -> Ok("Checkmate")
      [] OTHER -> Err(NotAction(value))

\* MoveAction::strategy
MoveAction_strategy == {"Check", "Checkmate"}

\* CastlingSide_as_str, but with the two texts exchanged
CastlingSide_as_str_swapped(side) ==
    CASE side = "QueenSide" -> <<"O", "-", "O">>
      [] side = "KingSide" -> <<"O", "-", "O", "-", "O">>

\* CastlingSide::as_str
CastlingSide_as_str(side) ==
    CASE side = "QueenSide" -> <<"O", "-", "O", "-", "O">>
      [] side = "KingSide" -> <<"O", "-", "O">>

\* CastlingSide::strategy
CastlingSide_strategy == {"KingSide", "QueenSide"}

----------------------------------------------------------------------------
(* The coordinate primitives of the notation module and the square type    *)

FileChars == <<"a", "b", "c", "d", "e", "f", "g", "h">>
RankChars == <<"1", "2", "3", "4", "5", "6", "7", "8">>

\* notation::file_to_char: defined on 0..7 only
file_to_char(f) == IF f \in 0..LastIndex THEN Some(FileChars[f + 1]) ELSE None

\* notation::rank_to_char: defined on 0..7 only
rank_to_char(r) == IF r \in 0..LastIndex THEN Some(RankChars[r + 1]) ELSE None

\* the inverse primitives, used by the parser
char_to_file(c) ==
    IF \E f \in 0..LastIndex : FileChars[f + 1] = c
    THEN Some(CHOOSE f \in 0..LastIndex : FileChars[f + 1] = c)
    ELSE None

char_to_rank(c) ==
    IF \E r \in 0..LastIndex : RankChars[r + 1] = c
    THEN Some(CHOOSE r \in 0..LastIndex : RankChars[r + 1] = c)
    ELSE None

\* SimpleSquare: a file and a rank, both on the board
SimpleSquare(f, r) == [file |-> f, rank |-> r]

\* SimpleSquare::as_str: file letter then rank digit
SimpleSquare_as_str(sq) ==
    <<Unwrap(file_to_char(sq.file)), Unwrap(rank_to_char(sq.rank))>>

\* SimpleSquare::strategy, within the bound on destinations
SimpleSquare_strategy == {SimpleSquare(f, r) : f \in 0..MaxDest, r \in 0..MaxDest}

----------------------------------------------------------------------------
(* AmbiguousMove *)

Normal(k, sf, sr, t, d, p, a) ==
    [tag |-> "Normal", piece_kind |-> k, src_file |-> sf, src_rank |-> sr,
     takes |-> t, dest |-> d, promote_to |-> p, action |-> a]

Castle(s) == [tag |-> "Castle", side |-> s]

\* the outcome of a call that may panic
Returned(s) == [panic |-> FALSE, s |-> s]
Panicked == [panic |-> TRUE]

\* as_pgn_str, but a pawn gets its letter like every other piece
as_pgn_str_pawn_letter(self) ==
    IF self.tag = "Normal"
    THEN LET s1 == <<PieceKind_to_char(self.piece_kind)>>
             fc == IF IsSome(self.src_file)
                   THEN file_to_char(Unwrap(self.src_file)) ELSE None
             rc == IF IsSome(self.src_rank)
                   THEN rank_to_char(Unwrap(self.src_rank)) ELSE None
             s2 == IF IsSome(self.src_file) THEN s1 \o fc ELSE s1
             s3 == IF IsSome(self.src_rank) THEN s2 \o rc ELSE s2
             s4 == IF self.takes THEN Append(s3, "x") ELSE s3
             s5 == s4 \o SimpleSquare_as_str(self.dest)
             s6 == IF IsSome(self.promote_to)
                   THEN s5 \o <<"=", PieceKind_to_char(Unwrap(self.promote_to))>>
                   ELSE s5
             s7 == IF IsSome(self.action)
                   THEN Append(s6, MoveAction_to_char(Unwrap(self.action)))
                   ELSE s6
         IN  IF    (IsSome(self.src_file) /\ ~IsSome(fc))
                \/ (IsSome(self.src_rank) /\ ~IsSome(rc))
             THEN Panicked
             ELSE Returned(s7)
    ELSE Returned(CastlingSide_as_str(self.side))

\* as_pgn_str, but the source rank is written before the source file
as_pgn_str_rank_first(self) ==
    IF self.tag = "Normal"
    THEN LET s1 == IF self.piece_kind # "Pawn"
                   THEN <<PieceKind_to_char(self.piece_kind)>> ELSE <<>>
             fc == IF IsSome(self.src_file)
                   THEN file_to_char(Unwrap(self.src_file)) ELSE None
             rc == IF IsSome(self.src_rank)
                   THEN rank_to_char(Unwrap(self.src_rank)) ELSE None
             s2 == IF IsSome(self.src_rank) THEN s1 \o rc ELSE s1
             s3 == IF IsSome(self.src_file) THEN s2 \o fc ELSE s2
             s4 == IF self.takes THEN Append(s3, "x") ELSE s3
             s5 == s4 \o SimpleSquare_as_str(self.dest)
             s6 == IF IsSome(self.promote_to)
                   THEN s5 \o <<"=", PieceKind_to_char(Unwrap(self.promote_to))>>
                   ELSE s5
             s7 == IF IsSome(self.action)
                   THEN Append(s6, MoveAction_to_char(Unwrap(self.action)))
                   ELSE s6
         IN  IF    (IsSome(self.src_file) /\ ~IsSome(fc))
                \/ (IsSome(self.src_rank) /\ ~IsSome(rc))
             THEN Panicked
             ELSE Returned(s7)
    ELSE Returned(CastlingSide_as_str(self.side))

\* as_pgn_str, but a source index off the board is skipped, not unwrapped
as_pgn_str_unchecked(self) ==
    IF self.tag = "Normal"
    THEN LET s1 == IF self.piece_kind # "Pawn"
                   THEN <<PieceKind_to_char(self.piece_kind)>> ELSE <<>>
             fc == IF IsSome(self.src_file)
                   THEN file_to_char(Unwrap(self.src_file)) ELSE None
             rc == IF IsSome(self.src_rank)
                   THEN rank_to_char(Unwrap(self.src_rank)) ELSE None
             s2 == IF IsSome(fc) THEN s1 \o fc ELSE s1
             s3 == IF IsSome(rc) THEN s2 \o rc ELSE s2
             s4 == IF self.takes THEN Append(s3, "x") ELSE s3
             s5 == s4 \o SimpleSquare_as_str(self.dest)
             s6 == IF IsSome(self.promote_to)
                   THEN s5 \o <<"=", PieceKind_to_char(Unwrap(self.promote_to))>>
                   ELSE s5
             s7 == IF IsSome(self.action)
                   THEN Append(s6, MoveAction_to_char(Unwrap(self.action)))
                   ELSE s6
         IN  Returned(s7)
    ELSE Returned(CastlingSide_as_str(self.side))

\* AmbiguousMove::as_pgn_str
as_pgn_str(self) ==
    IF self.tag = "Normal"
    THEN LET s1 == IF self.piece_kind # "Pawn"
                   THEN <<PieceKind_to_char(self.piece_kind)>> ELSE <<>>
             fc == IF IsSome(self.src_file)
                   THEN file_to_char(Unwrap(self.src_file)) ELSE None
             rc == IF IsSome(self.src_rank)
                   THEN rank_to_char(Unwrap(self.src_rank)) ELSE None
             s2 == IF IsSome(self.src_file) THEN s1 \o fc ELSE s1
             s3 == IF IsSome(self.src_rank) THEN s2 \o rc ELSE s2
             s4 == IF self.takes THEN Append(s3, "x") ELSE s3
             s5 == s4 \o SimpleSquare_as_str(self.dest)
             s6 == IF IsSome(self.promote_to)
                   THEN s5 \o <<"=", PieceKind_to_char(Unwrap(self.promote_to))>>
                   ELSE s5
             s7 == IF IsSome(self.action)
                   THEN Append(s6, MoveAction_to_char(Unwrap(self.action)))
                   ELSE s6
         IN  IF    (IsSome(self.src_file) /\ ~IsSome(fc))
                \/ (IsSome(self.src_rank) /\ ~IsSome(rc))
             THEN Panicked
             ELSE Returned(s7)
    ELSE Returned(CastlingSide_as_str(self.side))

\* AmbiguousMove::strategy
AmbiguousMove_strategy ==
    {Castle(s) : s \in CastlingSide_strategy}
    \cup
    {Normal(k, sf, sr, t, d, p, a) :
        k \in PieceKind_strategy,
        sf \in Option(0..LastIndex),
        sr \in Option(0..LastIndex),
        t \in BOOLEAN,
        d \in SimpleSquare_strategy,
        p \in Option(PieceKind_promotable_stategy),
        a \in Option(MoveAction_strategy)}

----------------------------------------------------------------------------
(* parser::pgn: the move grammar.  A parser takes a text and returns the   *)
(* position after what it consumed together with the value it built.       *)

At(s, i) == IF i \in 1..Len(s) THEN s[i] ELSE ""

StartsWith(s, p) == Len(s) >= Len(p) /\ SubSeq(s, 1, Len(p)) = p

Parsed(pos, v) == [ok |-> TRUE, pos |-> pos, val |-> v]
Failed == [ok |-> FALSE]

\* the trailing action glyph: '+' or '#', optional
action_glyph(s, i) ==
    IF \E a \in MoveAction : MoveAction_to_char(a) = At(s, i)
    THEN Parsed(i + 1, Some(CHOOSE a \in MoveAction : MoveAction_to_char(a) = At(s, i)))
    ELSE Parsed(i, None)

\* castling: the longer queen-side text is matched before the king-side
\* text; a trailing action glyph is consumed and discarded
castle(s) ==
    LET q == CastlingSide_as_str("QueenSide")
        k == CastlingSide_as_str("KingSide")
    IN  IF StartsWith(s, q)
        THEN Parsed(action_glyph(s, Len(q) + 1).pos, Castle("QueenSide"))
        ELSE IF StartsWith(s, k)
        THEN Parsed(action_glyph(s, Len(k) + 1).pos, Castle("KingSide"))
        ELSE Failed

\* the optional "=<letter>" suffix: the letter is a promotable piece kind
promotion(s, i) ==
    IF At(s, i) = "="
    THEN LET p == PieceKind_try_from(At(s, i + 1))
         IN  IF p.ok /\ p.val \in PieceKind_promotable_stategy
             THEN Parsed(i + 2, Some(p.val))
             ELSE Failed
    ELSE Parsed(i, None)

\* what follows the disambiguation: optional 'x', the destination square,
\* optional promotion, optional action glyph
move_tail(s, i, kind, sf, sr) ==
    LET takes == At(s, i) = "x"
        i1 == IF takes THEN i + 1 ELSE i
        df == char_to_file(At(s, i1))
        dr == char_to_rank(At(s, i1 + 1))
        pr == promotion(s, i1 + 2)
    IN  IF IsSome(df) /\ IsSome(dr) /\ pr.ok
        THEN LET ac == action_glyph(s, pr.pos)
             IN  Parsed(ac.pos,
                        Normal(kind, sf, sr, takes,
                               SimpleSquare(Unwrap(df), Unwrap(dr)),
                               pr.val, ac.val))
        ELSE Failed

\* a normal move: optional piece letter (none means a pawn), then zero, one
\* or two of file and rank in that order, then the tail
normal_move(s) ==
    LET pk == PieceKind_try_from(At(s, 1))
        kind == IF pk.ok THEN pk.val ELSE "Pawn"
        i == IF pk.ok THEN 2 ELSE 1
        f == char_to_file(At(s, i))
        r1 == char_to_rank(At(s, i))
        r2 == char_to_rank(At(s, i + 1))
        both == IF IsSome(f) /\ IsSome(r2)
                THEN move_tail(s, i + 2, kind, f, r2) ELSE Failed
        file == IF IsSome(f)
                THEN move_tail(s, i + 1, kind, f, None) ELSE Failed
        rank == IF IsSome(r1)
                THEN move_tail(s, i + 1, kind, None, r1) ELSE Failed
        neither == move_tail(s, i, kind, None, None)
    IN  IF both.ok THEN both
        ELSE IF file.ok THEN file
        ELSE IF rank.ok THEN rank
        ELSE neither

\* one move token at the start of the text
move_token(s) ==
    LET c == castle(s) IN IF c.ok THEN c ELSE normal_move(s)

\* chess_move, but without the end-of-input requirement
chess_move_prefix(input) ==
    LET p == move_token(input)
    IN  IF p.ok
        THEN Ok(<<SubSeq(input, p.pos, Len(input)), p.val>>)
        ELSE Err(ParseError(input))

\* parser::pgn::chess_move: a move token and nothing after it; returns the
\* pair (remaining input, move)
chess_move(input) ==
    LET p == move_token(input)
    IN  IF p.ok /\ p.pos = Len(input) + 1
        THEN Ok(<<SubSeq(input, p.pos, Len(input)), p.val>>)
        ELSE Err(ParseError(input))

\* AmbiguousMove_try_from, but the parser's own error is passed on
AmbiguousMove_try_from_inner_error(value) ==
    LET r == chess_move(value)
    IN  IF r.ok THEN Ok(r.val[2]) ELSE Err(r.err)

\* impl TryFrom<&str> for AmbiguousMove
AmbiguousMove_try_from(value) ==
    LET r == chess_move(value)
    IN  IF r.ok THEN Ok(r.val[2]) ELSE Err(InvalidPGN(value))

----------------------------------------------------------------------------
(* Inputs *)

\* the characters a piece-kind conversion is tried on
Chars ==
    {PieceKind_to_char(k) : k \in PieceKind}
    \cup {FileChars[i] : i \in 1..Len(FileChars)}
    \cup {RankChars[i] : i \in 1..Len(RankChars)}
    \cup {"x", "=", "+", "#", "O", "-"}
    \cup {"k", "q", "n", "r", "p", "0", "9", "i", " "}

\* the characters arbitrary input texts are made of
TextChars == {"K", "Q", "e", "4", "9", "x", "=", "+", "O", "-"}

\* the characters appended to an encoded move
TrailChars == {"+", "-", "e"}

\* every text over TextChars of at most MaxLen characters
ShortTexts == UNION {[1..n -> TextChars] : n \in 0..MaxLen}

\* move texts named in the documentation and their malformed neighbours
SampleTexts ==
    {<<"O", "-", "O", "-", "O">>,
     <<"O", "-", "O", "-", "O", "#">>,
     <<"O", "-", "O", "-", "O", "-", "O">>,
     <<"e", "x", "d", "8", "=", "Q", "#">>,
     <<"e", "x", "d", "8", "=", "K", "#">>,
     <<"e", "x", "d", "8", "=", "P">>,
     <<"Q", "h", "5", "+">>,
     <<"N", "c", "x", "f", "3">>,
     <<"K", "x", "9">>,
     <<"P", "e", "4">>,
     <<"k", "e", "4">>}

\* the moves a caller can build that the strategy never generates: a source
\* index beyond the board, or a promotion to King or Pawn
ConstructedMoves ==
    {Normal(k, sf, sr, t, d, p, a) :
        k \in PieceKind,
        sf \in Option(0..MaxIndex),
        sr \in Option(0..MaxIndex),
        t \in BOOLEAN,
        d \in SimpleSquare_strategy,
        p \in Option(PieceKind),
        a \in Option(MoveAction)}
    \ AmbiguousMove_strategy

NoMove == [tag |-> "NoMove"]
NoRet == [ok |-> FALSE, err |-> [kind |-> "NoCall"]]

----------------------------------------------------------------------------
(* The state machine: one call sequence per behaviour *)

Init ==
    /\ pc = "start"
    /\ mv = NoMove
    /\ text = <<>>
    /\ ret = NoRet
    /\ arg = ""

\* a move drawn from AmbiguousMove::strategy
Generate ==
    /\ pc = "start"
    /\ \E v \in AmbiguousMove_strategy :
       /\ pc' = "move"
       /\ mv' = v
       /\ UNCHANGED <<text, ret, arg>>

\* a move built field by field by a caller
Construct ==
    /\ pc = "start"
    /\ \E v \in ConstructedMoves :
       /\ pc' = "move"
       /\ mv' = v
       /\ UNCHANGED <<text, ret, arg>>

\* mv.as_pgn_str()
Encode ==
    /\ pc = "move"
    /\ LET r == as_pgn_str(mv)
       IN  IF r.panic
           THEN pc' = "panicked" /\ text' = text
           ELSE pc' = "encoded" /\ text' = r.s
    /\ UNCHANGED <<mv, ret, arg>>

\* further characters written after an encoded move
AppendChar ==
    /\ pc = "encoded"
    /\ \E c \in TrailChars :
       /\ pc' = "text"
       /\ text' = Append(text, c)
       /\ UNCHANGED <<mv, ret, arg>>

\* a text from outside
Input ==
    /\ pc = "start"
    /\ \E t \in ShortTexts \cup SampleTexts :
       /\ pc' = "text"
       /\ text' = t
       /\ UNCHANGED <<mv, ret, arg>>

\* AmbiguousMove::try_from(text)
Decode ==
    /\ pc \in {"encoded", "text"}
    /\ pc' = IF pc = "encoded" THEN "reparsed" ELSE "decoded"
    /\ ret' = AmbiguousMove_try_from(text)
    /\ UNCHANGED <<mv, text, arg>>

\* PieceKind::try_from(c)
PieceKindTryFrom ==
    /\ pc = "start"
    /\ \E c \in Chars :
       /\ pc' = "piece_kind"
       /\ arg' = c
       /\ ret' = PieceKind_try_from(c)
       /\ UNCHANGED <<mv, text>>

\* PieceKind::try_from(char::from(k))
PieceKindRoundTrip ==
    /\ pc = "start"
    /\ \E k \in PieceKind :
       /\ pc' = "piece_kind_rt"
       /\ arg' = k
       /\ ret' = PieceKind_try_from(PieceKind_to_char(k))
       /\ UNCHANGED <<mv, text>>

\* MoveAction::try_from(s)
StateToAction ==
    /\ pc = "start"
    /\ \E s \in BoardState :
       /\ pc' = "action"
       /\ arg' = s
       /\ ret' = MoveAction_try_from(s)
       /\ UNCHANGED <<mv, text>>

\* MoveAction::try_from(BoardState::from(a))
ActionRoundTrip ==
    /\ pc = "start"
    /\ \E a \in MoveAction :
       /\ pc' = "action_rt"
       /\ arg' = a
       /\ ret' = MoveAction_try_from(BoardState_from(a))
       /\ UNCHANGED <<mv, text>>

Next ==
    \/ Generate
    \/ Construct
    \/ Encode
    \/ AppendChar
    \/ Input
    \/ Decode
    \/ PieceKindTryFrom
    \/ PieceKindRoundTrip
    \/ StateToAction
    \/ ActionRoundTrip

Spec == Init /\ [][Next]_vars

----------------------------------------------------------------------------
(* Properties *)

\* a text has been decoded
Decoded == pc \in {"decoded", "reparsed"}

\* text holds what as_pgn_str returned for mv
Encoded == pc \in {"encoded", "reparsed"}

QueenSideText == <<"O", "-", "O", "-", "O">>
KingSideText == <<"O", "-", "O">>

\* a fully populated AmbiguousMove
IsAmbiguousMove(v) ==
    \/ /\ DOMAIN v = {"tag", "side"}
       /\ v.tag = "Castle"
       /\ v.side \in CastlingSide
    \/ /\ DOMAIN v = {"tag", "piece_kind", "src_file", "src_rank", "takes",
                      "dest", "promote_to", "action"}
       /\ v.tag = "Normal"
       /\ v.piece_kind \in PieceKind
       /\ v.src_file \in Option(0..LastIndex)
       /\ v.src_rank \in Option(0..LastIndex)
       /\ v.takes \in BOOLEAN
       /\ v.dest.file \in 0..LastIndex
       /\ v.dest.rank \in 0..LastIndex
       /\ v.promote_to \in Option(PieceKind)
       /\ v.action \in Option(MoveAction)

\* C1: decoding the text as_pgn_str produced for a move of the strategy
\* succeeds and returns that move.
RoundTrip ==
    (pc = "reparsed" /\ mv \in AmbiguousMove_strategy) => ret = Ok(mv)

RoundTripWitness ==
    /\ pc = "reparsed"
    /\ mv = Normal("Pawn", Some(4), None, TRUE, SimpleSquare(1, 1),
                   Some("Queen"), Some("Checkmate"))
    /\ text = <<"e", "x", "b", "2", "=", "Q", "#">>
    /\ ret = Ok(mv)

AllOrNothing ==
    Decoded =>
        \/ ret.ok /\ DOMAIN ret = {"ok", "val"} /\ IsAmbiguousMove(ret.val)
        \/ ret = Err(InvalidPGN(text))

AllOrNothingWitness ==
    /\ pc = "decoded"
    /\ text = <<"K", "x", "9">>
    /\ ret = Err(InvalidPGN(<<"K", "x", "9">>))

\* C4: as_pgn_str returns the piece letter (none for a pawn), the source
\* file, the source rank, 'x', the destination, '=' and the promotion
\* letter, the action glyph, in this order, each only if present, and
\* nothing else; for a castle it returns the side's text.
Letter ==
    [King |-> "K", Queen |-> "Q", Bishop |-> "B", Knight |-> "N",
     Rook |-> "R", Pawn |-> "P"]

Glyph == [Check |-> "+", Checkmate |-> "#"]

Opt(present, t) == IF present THEN t ELSE <<>>

ExpectedText(v) ==
    IF v.tag = "Castle"
    THEN IF v.side = "KingSide" THEN KingSideText ELSE QueenSideText
    ELSE    Opt(v.piece_kind # "Pawn", <<Letter[v.piece_kind]>>)
         \o Opt(IsSome(v.src_file), <<FileChars[Unwrap(v.src_file) + 1]>>)
         \o Opt(IsSome(v.src_rank), <<RankChars[Unwrap(v.src_rank) + 1]>>)
         \o Opt(v.takes, <<"x">>)
         \o <<FileChars[v.dest.file + 1], RankChars[v.dest.rank + 1]>>
         \o Opt(IsSome(v.promote_to), <<"=", Letter[Unwrap(v.promote_to)]>>)
         \o Opt(IsSome(v.action), <<Glyph[Unwrap(v.action)]>>)

EncodeOrder == Encoded => text = ExpectedText(mv)

EncodeOrderWitness ==
    /\ pc = "encoded"
    /\ mv = Normal("Knight", Some(2), Some(0), TRUE, SimpleSquare(1, 1),
                   None, Some("Check"))
    /\ text = <<"N", "c", "1", "x", "b", "2", "+">>

\* C5: BoardState to MoveAction succeeds exactly for Check and Checkmate,
\* fails for Normal and Stalemate with NotAction carrying the input, and
\* undoes MoveAction to BoardState, which is injective.
StateToActionPartial ==
    /\ pc = "action" =>
          IF arg \in {"Check", "Checkmate"}
          THEN ret = Ok(arg)
          ELSE ret = Err(NotAction(arg))
    /\ pc = "action_rt" => ret = Ok(arg)
    /\ \A a, b \in MoveAction :
          BoardState_from(a) = BoardState_from(b) => a = b

StateToActionPartialWitness ==
    /\ pc = "action"
    /\ arg = "Stalemate"
    /\ ret = Err(NotAction("Stalemate"))

\* C6: PieceKind::try_from succeeds for exactly K, Q, B, N, R, P and fails
\* for any other character with InvalidPGN carrying that character; it
\* undoes char::from, which maps the six kinds to six distinct characters.
PieceKindChars ==
    /\ pc = "piece_kind" =>
          IF arg \in {"K", "Q", "B", "N", "R", "P"}
          THEN ret.ok /\ ret.val \in PieceKind
          ELSE ret = Err(InvalidPGN(<<arg>>))
    /\ pc = "piece_kind_rt" => ret = Ok(arg)
    /\ Cardinality({PieceKind_to_char(k) : k \in PieceKind}) = Cardinality(PieceKind)

PieceKindCharsWitness ==
    /\ pc = "piece_kind"
    /\ arg = "k"
    /\ ret = Err(InvalidPGN(<<"k">>))

PawnOmission ==
    (Encoded /\ mv.tag = "Normal") =>
        /\ (Head(text) = Letter[mv.piece_kind]) <=> (mv.piece_kind # "Pawn")
        /\ mv.piece_kind = "Pawn" =>
              Head(text) \in {FileChars[i] : i \in 1..Len(FileChars)}
                             \cup {RankChars[i] : i \in 1..Len(RankChars)}
                             \cup {"x"}

PawnOmissionWitness ==
    /\ pc = "encoded"
    /\ mv.tag = "Normal"
    /\ mv.piece_kind = "Pawn"
    /\ mv.takes
    /\ mv.src_file = None
    /\ mv.src_rank = None
    /\ Head(text) = "x"

\* C10: as_pgn_str panics exactly when the move is Normal and a present
\* src_file or src_rank is outside 0..7.
OffBoard(v) ==
    /\ v.tag = "Normal"
    /\ \/ IsSome(v.src_file) /\ Unwrap(v.src_file) \notin 0..7
       \/ IsSome(v.src_rank) /\ Unwrap(v.src_rank) \notin 0..7

PanicExactly ==
    (mv # NoMove /\ pc # "move") => (pc = "panicked" <=> OffBoard(mv))

PanicExactlyWitness ==
    /\ pc = "panicked"
    /\ mv.tag = "Normal"
    /\ mv.src_file = None
    /\ mv.src_rank = Some(8)

====
